---- MODULE Spec2Model ----
(***************************************************************************)
(* Model of the PDF benchmarking harness of src/main.py (LibrariesTesting) *)
(* and of its caller src/run.py (run).                                     *)
(*                                                                         *)
(* File names and paths are sequences of characters (each a string naming  *)
(* one character: "a", "e_acute", "l_stroke"), so that                      *)
(* endswith('.pdf'), os.path.basename, strip_accents and the ordering of   *)
(* paths are computed rather than assumed.  Elapsed times are counted in   *)
(* units of 10^-10 s (the resolution of decimal_round, '{0:.10f}'); a      *)
(* decimal string is the record [units, places] standing for               *)
(* units * 10^-places.                                                     *)
(***************************************************************************)
EXTENDS Integers, Sequences, FiniteSets, TLC

VARIABLES
    tree,               \* the input directory: a set of file entries
    launches,           \* processes of run.py started in the working directory
    events,             \* statements the latest loop iteration ran, in order
    pdfs,               \* self.pdfs
    pc,                 \* position of run() / launch()
    strat,              \* index in Strategies of the running _test_* method
    idx,                \* number of files the running loop has finished
    total_pages,        \* local list of the running _test_* method
    errors,             \* local list of the running _test_* method
    total_mining_time,  \* local list of the running _test_* method
    dirs,               \* output directories that exist
    logs,               \* pdfs_processing_time/<strategy>.txt files that exist
    stats_file,         \* processing_stats/final_stats.json: <<>> or <<doc>>
    json_writes,        \* number of times launch() opened final_stats.json for writing
    final_stats_dict,   \* self.final_stats_dict
    is_ready,           \* self.is_ready
    plot_data,          \* StatisticPlot's six dicts, once read
    uncaught,           \* <<>>, or the exception that left launch() or run()
    clock,              \* time.time()
    fault_budget        \* errors the environment may still raise

vars == <<tree, launches, events, pdfs, pc, strat, idx, total_pages, errors, total_mining_time,
          dirs, logs, stats_file, json_writes, final_stats_dict, is_ready,
          plot_data, uncaught, clock, fault_budget>>

(***************************************************************************)
(* Bounds                                                                  *)
(***************************************************************************)
MaxClock == 1
MaxFaults == 2
MaxSize == 2
MaxEntries == 2

(***************************************************************************)
(* Characters, names and paths                                             *)
(***************************************************************************)
\* ord() of the characters the model's names are made of
Ord(c) ==
    CASE c = "." -> 46
      [] c = "/" -> 47
      [] c = "D" -> 68
      [] c = "F" -> 70
      [] c = "P" -> 80
      [] c = "a" -> 97
      [] c = "b" -> 98
      [] c = "d" -> 100
      [] c = "e" -> 101
      [] c = "f" -> 102
      [] c = "m" -> 109
      [] c = "p" -> 112
      [] c = "r" -> 114
      [] c = "s" -> 115
      [] c = "t" -> 116
      [] c = "x" -> 120
      [] c = "y" -> 121
      [] c = "e_acute" -> 233
      [] c = "l_stroke" -> 322
      [] c = "combining_acute" -> 769

\* unicodedata.normalize('NFKD', c): only e-acute decomposes
NFKD(c) == IF c = "e_acute" THEN <<"e", "combining_acute">> ELSE <<c>>

\* unicodedata.category(c) = 'Mn': the combining acute accent
IsMn(c) == c = "combining_acute"

RECURSIVE Flatten(_)
Flatten(ss) == IF ss = <<>> THEN <<>> ELSE Head(ss) \o Flatten(Tail(ss))

strip_accents(text) ==
    SelectSeq(Flatten([i \in 1..Len(text) |-> NFKD(text[i])]), LAMBDA c : ~IsMn(c))

EndsWith(s, suffix) ==
    /\ Len(s) >= Len(suffix)
    /\ SubSeq(s, Len(s) - Len(suffix) + 1, Len(s)) = suffix

PdfSuffix == <<".", "p", "d", "f">>

\* os.path.join(r, f)
Join(r, f) == r \o <<"/">> \o f

\* os.path.basename(p): what follows the last '/'
RECURSIVE Basename(_)
Basename(p) ==
    IF \E i \in 1..Len(p) : p[i] = "/"
    THEN Basename(Tail(p))
    ELSE p

\* p < q as Python compares strings (by code point, a proper prefix first)
RECURSIVE StrLess(_, _)
StrLess(p, q) ==
    IF q = <<>> THEN FALSE
    ELSE IF p = <<>> THEN TRUE
    ELSE IF Ord(Head(p)) # Ord(Head(q)) THEN Ord(Head(p)) < Ord(Head(q))
    ELSE StrLess(Tail(p), Tail(q))

IsAscii(s) == \A i \in 1..Len(s) : Ord(s[i]) < 128

(***************************************************************************)
(* The input directory and file discovery                                  *)
(***************************************************************************)
Root == <<"r">>
SubDir == <<"r", "/", "s">>

\* Python values a strategy may hand back as pages_count: an int, a float
\* num/den, or a str of decimal digits
PyInt(n) == [type |-> "int", num |-> n, den |-> 1, text |-> <<>>]
PyFloat(n, d) == [type |-> "float", num |-> n, den |-> d, text |-> <<>>]
PyStr(t) == [type |-> "str", num |-> 0, den |-> 1, text |-> t]

DigitChars == <<"0", "1", "2", "3", "4", "5", "6", "7", "8", "9">>

\* str(n) of an int n >= 0
RECURSIVE str(_)
str(n) ==
    IF n < Len(DigitChars) THEN <<DigitChars[n + 1]>>
    ELSE str(n \div Len(DigitChars)) \o <<DigitChars[(n % Len(DigitChars)) + 1]>>

\* int(t) of a str of decimal digits
RECURSIVE ParseInt(_)
ParseInt(t) ==
    IF t = <<>> THEN 0
    ELSE Len(DigitChars) * ParseInt(SubSeq(t, 1, Len(t) - 1))
         + (CHOOSE d \in 0..(Len(DigitChars) - 1) : DigitChars[d + 1] = t[Len(t)])

\* int(v): a float is truncated towards zero, a str of digits is parsed
int(v) ==
    CASE v.type = "int"   -> v.num
      [] v.type = "float" -> v.num \div v.den
      [] v.type = "str"   -> ParseInt(v.text)

\* a file of the directory: os.walk yields its directory e.dir and its name
\* e.name; e.pages is the number of its page objects and e.count the value of
\* the Count entry of its page tree
PathOf(e) == Join(e.dir, e.name)

\* the files a benchmark run is started on
RunFiles ==
    { [dir |-> Root, name |-> <<"e_acute">> \o PdfSuffix, size |-> 2, pages |-> 2,
        count |-> PyInt(2)],
      [dir |-> Root, name |-> <<"l_stroke">> \o PdfSuffix, size |-> 1, pages |-> 1,
        count |-> PyInt(1)] }

RunTrees == SUBSET RunFiles

\* files for the check of the page totals: the page tree of the first has the
\* real number 5/2 as its Count
CountFiles ==
    { [dir |-> Root, name |-> <<"a">> \o PdfSuffix, size |-> 2, pages |-> 2,
        count |-> PyFloat(5, 2)],
      [dir |-> Root, name |-> <<"b">> \o PdfSuffix, size |-> 1, pages |-> 1,
        count |-> PyInt(1)] }

CountTrees == SUBSET CountFiles

\* the directories discovery is checked on: at most MaxEntries files out of
\* five paths, each of every size up to MaxSize
DiscoveryPaths ==
    { <<Root, <<"a">> \o PdfSuffix>>,
      <<Root, <<"b">> \o PdfSuffix>>,
      <<SubDir, <<"a">> \o PdfSuffix>>,
      <<SubDir, <<"e", "m", "p", "t", "y">> \o PdfSuffix>>,
      <<Root, <<"a", ".", "P", "D", "F">>>> }

DiscoveryFiles ==
    { [dir |-> p[1], name |-> p[2], size |-> n, pages |-> 1, count |-> PyInt(1)] :
        p \in DiscoveryPaths, n \in 0..MaxSize }

RECURSIVE TreesUpTo(_)
TreesUpTo(n) ==
    IF n = 0 THEN {{}}
    ELSE LET smaller == TreesUpTo(n - 1)
         IN  smaller \cup
             UNION { { t \cup {e} : e \in { f \in DiscoveryFiles :
                                               \A g \in t : PathOf(g) # PathOf(f) } } :
                     t \in smaller }

DiscoveryTrees == TreesUpTo(MaxEntries)

\* os.path.getsize(p)
getsize(t, p) == (CHOOSE e \in t : PathOf(e) = p).size

\* the page count stored in the file at p
PagesOf(t, p) == (CHOOSE e \in t : PathOf(e) = p).pages

CountOf(t, p) == (CHOOSE e \in t : PathOf(e) = p).count

\* the value each method binds to pages_count: regex counts the page objects,
\* PyPDF2 and pdfrw return an int, pdfquery and pdfminer read the Count entry
\* as it is stored, and the metadata of tika are strings
pages_count(s, t, p) ==
    CASE s \in {"regex", "pypdf2", "pdfrw"} -> PyInt(PagesOf(t, p))
      [] s \in {"pdfquery", "pdfminer"}     -> CountOf(t, p)
      [] s = "tika"                         -> PyStr(str(PagesOf(t, p)))

\* list(set(...)): a set of str iterates in hash order, which differs from one
\* process to the next, so any enumeration of the set is possible
ListOfSet(S) ==
    { l \in [1..Cardinality(S) -> S] : \A x \in S : \E i \in DOMAIN l : l[i] = x }

\* sorted(l, key=os.path.getsize, reverse=True): a stable sort, so elements of
\* equal size keep the order they have in l
RECURSIVE SortedBySizeDesc(_, _)
InsertBySizeDesc(res, x, t) ==
    LET n == Cardinality({i \in DOMAIN res : getsize(t, res[i]) >= getsize(t, x)})
    IN  SubSeq(res, 1, n) \o <<x>> \o SubSeq(res, n + 1, Len(res))

SortedBySizeDesc(l, t) ==
    IF l = <<>> THEN <<>>
    ELSE InsertBySizeDesc(SortedBySizeDesc(SubSeq(l, 1, Len(l) - 1), t), l[Len(l)], t)

\* Selected without the test os.path.getsize(...) > 0
SelectedAnySize(t) ==
    { PathOf(e) : e \in { x \in t : EndsWith(x.name, PdfSuffix) } }

\* the paths the list comprehension of _prepare_pdfs selects
Selected(t) ==
    { PathOf(e) : e \in { x \in t : EndsWith(x.name, PdfSuffix) /\ x.size > 0 } }

\* the sequences _prepare_pdfs can return for the directory t
prepare_pdfs(t) == { SortedBySizeDesc(l, t) : l \in ListOfSet(Selected(t)) }

(***************************************************************************)
(* Decimal strings                                                         *)
(***************************************************************************)
DecimalRoundPlaces == 10
DefaultTimePlaces == 5

RECURSIVE Pow10(_)
Pow10(n) == IF n = 0 THEN 1 ELSE 10 * Pow10(n - 1)

\* '{:0.<places>f}'.format(x) for x in units of 10^-10 s, rounding half to even
FormatFixed(x, places) ==
    IF places >= DecimalRoundPlaces
    THEN [units |-> x * Pow10(places - DecimalRoundPlaces), places |-> places]
    ELSE LET d == Pow10(DecimalRoundPlaces - places)
             q == x \div d
             r == x % d
         IN  [units |-> IF 2 * r > d \/ (2 * r = d /\ q % 2 = 1) THEN q + 1 ELSE q,
              places |-> places]

\* decimal_round with the format of default_time, '{:0.5f}'
decimal_round_five(x) == FormatFixed(x, DefaultTimePlaces)

\* self.decimal_round.format(x)
decimal_round(x) == FormatFixed(x, DecimalRoundPlaces)

\* default_time with the format of decimal_round, '{0:.10f}'
default_time_ten == FormatFixed(0, DecimalRoundPlaces)

\* self.default_time
default_time == FormatFixed(0, DefaultTimePlaces)

\* float(s), in units of 10^-10 s
float(s) == s.units * Pow10(DecimalRoundPlaces - s.places)

RECURSIVE sum(_)
sum(l) == IF l = <<>> THEN 0 ELSE Head(l) + sum(Tail(l))

(***************************************************************************)
(* Strategies and the errors they catch                                    *)
(***************************************************************************)
Strategies == <<"regex", "pypdf2", "pdfrw", "pdfquery", "tika", "pdfminer">>

StrategySet == { Strategies[i] : i \in DOMAIN Strategies }

\* the classes named by the except clause of each _test_* method
ExceptClasses(s) ==
    CASE s = "regex"    -> {"KeyError", "AttributeError"}
      [] s = "pypdf2"   -> {"PdfReadError"}
      [] s = "pdfrw"    -> {"ValueError", "PdfReadError"}
      [] s = "pdfquery" -> {"KeyError", "AttributeError", "TypeError",
                            "PDFSyntaxError", "PDFEncryptionError"}
      [] s = "tika"     -> {"KeyError", "AttributeError", "TypeError",
                            "PDFSyntaxError", "PDFEncryptionError"}
      [] s = "pdfminer" -> {"KeyError", "AttributeError",
                            "PDFSyntaxError", "PDFEncryptionError"}

\* issubclass(kind, cls): UnicodeEncodeError derives from ValueError
IsSubclass(kind, cls) ==
    kind = cls \/ (kind = "UnicodeEncodeError" /\ cls = "ValueError")

\* Caught for a clause `except Exception`
CaughtAny(s, kind) == TRUE

\* whether the except clause of strategy s catches an error of class kind
Caught(s, kind) == \E cls \in ExceptClasses(s) : IsSubclass(kind, cls)

\* the error classes an extraction call is taken to raise
ExtractionErrors == {"KeyError", "TypeError", "PdfReadError"}

\* str(error) of the errors raised
Messages == {"m1", "m2"}

\* the filename each method logs: _test_pdfminer does not strip accents
FileName(s, p) ==
    IF s = "pdfminer" THEN Basename(p) ELSE strip_accents(Basename(p))

(***************************************************************************)
(* Output files                                                            *)
(***************************************************************************)
OutputDirs == {"pdfs_processing_time", "processing_stats", "plots"}

EmptyMap == [k \in {} |-> k]

\* what an earlier run may have left behind
StaleLine == [filename |-> <<"a">> \o PdfSuffix, elapsed |-> default_time]
StaleLogs == [s \in StrategySet |-> <<StaleLine>>]
StaleStats == [k \in {"regex_total_pages"} |-> 0]

\* _save_mining_time: open(save_path, 'a') creates the log when it is missing
save_mining_time(l, item, test_type) ==
    [f \in DOMAIN l \cup {test_type} |->
        IF f = test_type
        THEN (IF test_type \in DOMAIN l THEN l[test_type] ELSE <<>>)
             \o <<[filename |-> item[1], elapsed |-> item[2]]>>
        ELSE l[f]]

\* dict.update(**kw)
update(d, kw) ==
    [k \in DOMAIN d \cup DOMAIN kw |-> IF k \in DOMAIN kw THEN kw[k] ELSE d[k]]

(***************************************************************************)
(* Initial states: the object after __init__, in a working directory that  *)
(* may hold the output of an earlier run                                   *)
(***************************************************************************)
InitObject(trees, budget, now) ==
    /\ tree \in trees
    /\ launches = 1
    /\ events = <<>>
    /\ pdfs \in prepare_pdfs(tree)
    /\ pc = "cleanup"
    /\ strat = 1
    /\ idx = 0
    /\ total_pages = <<>>
    /\ errors = <<>>
    /\ total_mining_time = <<>>
    /\ \E stale \in BOOLEAN :
          /\ dirs = IF stale THEN OutputDirs ELSE {}
          /\ logs = IF stale THEN StaleLogs ELSE EmptyMap
          /\ stats_file = IF stale THEN <<StaleStats>> ELSE <<>>
    /\ json_writes = 0
    /\ final_stats_dict = EmptyMap
    /\ is_ready = FALSE
    /\ plot_data = EmptyMap
    /\ uncaught = <<>>
    /\ clock = now
    /\ fault_budget = budget

Init == InitObject(RunTrees, MaxFaults, 0)

\* an exception no except clause catches ends the process
Raise(kind, origin) ==
    /\ pc' = "aborted"
    /\ uncaught' = <<[kind |-> kind, origin |-> origin]>>

(***************************************************************************)
(* launch(): _cleanup and _create_dirs                                     *)
(***************************************************************************)
\* rmtree of each output directory that exists
cleanup ==
    /\ pc = "cleanup"
    /\ dirs' = {}
    /\ logs' = EmptyMap
    /\ stats_file' = <<>>
    /\ pc' = "create_dirs"
    /\ UNCHANGED <<tree, launches, events, pdfs, strat, idx, total_pages, errors, total_mining_time,
                   json_writes, final_stats_dict, is_ready, plot_data, uncaught,
                   clock, fault_budget>>

\* os.makedirs of each output directory; on OSError the except clause raises
\* a str, which is a TypeError: the run ends either way
create_dirs ==
    /\ pc = "create_dirs"
    /\ \/ /\ dirs' = dirs \cup OutputDirs
          /\ pc' = "test"
          /\ UNCHANGED <<fault_budget, uncaught>>
       \/ /\ fault_budget > 0
          /\ fault_budget' = fault_budget - 1
          /\ Raise("TypeError", "create_dirs")
          /\ UNCHANGED dirs
    /\ UNCHANGED <<tree, launches, events, pdfs, strat, idx, total_pages, errors, total_mining_time,
                   logs, stats_file, json_writes, final_stats_dict, is_ready,
                   plot_data, clock>>

(***************************************************************************)
(* One iteration of the loop of a _test_* method                           *)
(***************************************************************************)
\* the exception object bound by `as error`: errors are compared and hashed by
\* identity, which id stands for
ErrorObject(kind, msg) == [kind |-> kind, msg |-> msg, id |-> idx + 1]

\* SuccessLog with the record formatted like default_time, to 5 decimal places,
\* while the elapsed-time list keeps 10
SuccessLogFiveDecimals(s, d) ==
    save_mining_time(logs, <<FileName(s, pdfs[idx + 1]), FormatFixed(d, DefaultTimePlaces)>>, s)

\* the log after the try block has written the success record
SuccessLog(s, d) ==
    save_mining_time(logs, <<FileName(s, pdfs[idx + 1]), decimal_round(d)>>, s)

\* the log after the except clause has written its record into l
FailureLog(l, s) ==
    save_mining_time(l, <<FileName(s, pdfs[idx + 1]), default_time>>, s)

\* the statements of the try block of _test_<s>, in program order: time.time(),
\* open, f.read() where the method itself reads the file, the call that yields
\* pages_count, time.time(), _save_mining_time, print
TryBlock(s) ==
    CASE s = "regex" -> <<"timer_started", "file_opened", "file_read", "pages_counted",
                          "timer_stopped", "record_written", "printed">>
      [] s = "tika"  -> <<"timer_started", "file_opened", "file_read", "pages_counted",
                          "timer_stopped", "record_written", "printed">>
      [] OTHER       -> <<"timer_started", "file_opened", "pages_counted",
                          "timer_stopped", "record_written", "printed">>

\* the statements of block that have completed when statement e raises
Before(block, e) ==
    SubSeq(block, 1, (CHOOSE i \in DOMAIN block : block[i] = e) - 1)

\* the try block runs to its end: the extraction takes d units of time
IterateSuccess(s) ==
    \E d \in 0..(MaxClock - clock) :
        /\ clock' = clock + d
        /\ total_mining_time' = Append(total_mining_time, decimal_round(d))
        /\ logs' = SuccessLog(s, d)
        /\ total_pages' = Append(total_pages, pages_count(s, tree, pdfs[idx + 1]))
        /\ idx' = idx + 1
        /\ events' = TryBlock(s)
        /\ UNCHANGED <<errors, pc, uncaught, fault_budget>>

\* the extraction call raises: the except clause runs when it names the
\* class, otherwise the error leaves launch()
IterateExtractionRaises(s) ==
    /\ fault_budget > 0
    /\ fault_budget' = fault_budget - 1
    /\ events' = Before(TryBlock(s), "pages_counted")
    /\ \E kind \in ExtractionErrors, msg \in Messages :
          IF Caught(s, kind)
          THEN /\ logs' = FailureLog(logs, s)
               /\ errors' = Append(errors, ErrorObject(kind, msg))
               /\ idx' = idx + 1
               /\ UNCHANGED <<pc, uncaught>>
          ELSE /\ Raise(kind, "extraction")
               /\ UNCHANGED <<logs, errors, idx>>
    /\ UNCHANGED <<total_pages, total_mining_time, clock>>

\* the extraction succeeds and the record is written, then print() raises
\* UnicodeEncodeError: the console cannot encode a character of the filename
IteratePrintRaises(s) ==
    /\ fault_budget > 0
    /\ ~IsAscii(FileName(s, pdfs[idx + 1]))
    /\ fault_budget' = fault_budget - 1
    /\ events' = Before(TryBlock(s), "printed")
    /\ \E d \in 0..(MaxClock - clock) :
          /\ clock' = clock + d
          /\ total_mining_time' = Append(total_mining_time, decimal_round(d))
          /\ total_pages' = Append(total_pages, pages_count(s, tree, pdfs[idx + 1]))
          /\ IF Caught(s, "UnicodeEncodeError")
             THEN /\ logs' = FailureLog(SuccessLog(s, d), s)
                  /\ errors' = Append(errors, ErrorObject("UnicodeEncodeError", "codec"))
                  /\ idx' = idx + 1
                  /\ UNCHANGED <<pc, uncaught>>
             ELSE /\ logs' = SuccessLog(s, d)
                  /\ Raise("UnicodeEncodeError", "print")
                  /\ UNCHANGED <<errors, idx>>

Iterate(s) ==
    /\ idx < Len(pdfs)
    /\ \/ IterateSuccess(s)
       \/ IterateExtractionRaises(s)
       \/ IteratePrintRaises(s)
    /\ UNCHANGED <<tree, launches, pdfs, strat, dirs, stats_file, json_writes,
                   final_stats_dict, is_ready, plot_data>>

(***************************************************************************)
(* The summary a _test_* method computes after its loop                    *)
(***************************************************************************)
\* list(set(errors)): exceptions hash and compare by identity
list_set_errors(errs) == { errs[i] : i \in DOMAIN errs }

\* sum(list(map(float, total_mining_time)))
total_parsing_time(times) == sum([i \in DOMAIN times |-> float(times[i])])

\* Summary without the '<strategy>_errors' key
SummaryWithoutErrors(s) ==
    LET kp == s \o "_total_pages"
        kt == s \o "_total_parsing_time"
    IN  [k \in {kp, kt} |->
            IF k = kp THEN sum([i \in DOMAIN total_pages |-> int(total_pages[i])])
            ELSE sum([i \in DOMAIN total_mining_time |-> float(total_mining_time[i])])]

\* the three keys the method merges into final_stats_dict
Summary(s) ==
    LET kp == s \o "_total_pages"
        kt == s \o "_total_parsing_time"
        ke == s \o "_errors"
    IN  [k \in {kp, kt, ke} |->
            IF k = kp THEN sum([i \in DOMAIN total_pages |-> int(total_pages[i])])
            ELSE IF k = kt THEN total_parsing_time(total_mining_time)
            ELSE [count |-> Len(errors), errors |-> list_set_errors(errors)]]

\* the method returns; launch() calls the next one, whose lists start empty
Summarize(s) ==
    /\ idx = Len(pdfs)
    /\ final_stats_dict' = update(final_stats_dict, Summary(s))
    /\ total_pages' = <<>>
    /\ errors' = <<>>
    /\ total_mining_time' = <<>>
    /\ idx' = 0
    /\ IF strat < Len(Strategies)
       THEN strat' = strat + 1 /\ UNCHANGED pc
       ELSE pc' = "save_final_stats" /\ UNCHANGED strat
    /\ events' = <<>>
    /\ UNCHANGED <<tree, launches, pdfs, dirs, logs, stats_file, json_writes, is_ready,
                   plot_data, uncaught, clock, fault_budget>>

TestStep(s) ==
    /\ pc = "test"
    /\ Strategies[strat] = s
    /\ (Iterate(s) \/ Summarize(s))

test_regex == TestStep("regex")
test_pypdf2 == TestStep("pypdf2")
test_pdfrw == TestStep("pdfrw")
test_pdfquery == TestStep("pdfquery")
test_tika == TestStep("tika")
test_pdfminer == TestStep("pdfminer")

(***************************************************************************)
(* _save_final_stats                                                       *)
(***************************************************************************)
\* self.is_ready = True, the first statement
save_final_stats_ready ==
    /\ pc = "save_final_stats"
    /\ is_ready' = TRUE
    /\ pc' = "write_final_stats"
    /\ UNCHANGED <<tree, launches, events, pdfs, strat, idx, total_pages, errors, total_mining_time,
                   dirs, logs, stats_file, json_writes, final_stats_dict,
                   plot_data, uncaught, clock, fault_budget>>

\* open(save_path, 'w') and json.dump; open can raise OSError
save_final_stats_write ==
    /\ pc = "write_final_stats"
    /\ \/ /\ stats_file' = <<final_stats_dict>>
          /\ json_writes' = json_writes + 1
          /\ pc' = "poll"
          /\ UNCHANGED <<fault_budget, uncaught>>
       \/ /\ fault_budget > 0
          /\ fault_budget' = fault_budget - 1
          /\ Raise("OSError", "save_final_stats")
          /\ UNCHANGED <<stats_file, json_writes>>
    /\ UNCHANGED <<tree, launches, events, pdfs, strat, idx, total_pages, errors, total_mining_time,
                   dirs, logs, final_stats_dict, is_ready, plot_data, clock>>

(***************************************************************************)
(* run(): the wait on is_ready and StatisticPlot.__init__                  *)
(***************************************************************************)
\* str.lower() of a character
Lower(c) ==
    CASE c = "D" -> "d"
      [] c = "F" -> "f"
      [] c = "P" -> "p"
      [] OTHER -> c

LowerStr(s) == [i \in DOMAIN s |-> Lower(s[i])]

\* StatisticPlot._read: dict of the lines split at ';', a later line replacing
\* an earlier one of the same filename
read(lines) ==
    [k \in { LowerStr(lines[i].filename) : i \in DOMAIN lines } |->
        LET last == CHOOSE i \in DOMAIN lines :
                        /\ LowerStr(lines[i].filename) = k
                        /\ \A j \in DOMAIN lines :
                              LowerStr(lines[j].filename) = k => j <= i
        IN  lines[last].elapsed]

\* while not lib_test.is_ready: continue
run_poll ==
    /\ pc = "poll"
    /\ is_ready
    /\ pc' = "plot"
    /\ UNCHANGED <<tree, launches, events, pdfs, strat, idx, total_pages, errors, total_mining_time,
                   dirs, logs, stats_file, json_writes, final_stats_dict, is_ready,
                   plot_data, uncaught, clock, fault_budget>>

\* StatisticPlot(...) opens the six logs; open raises FileNotFoundError for a
\* log that does not exist
run_plot ==
    /\ pc = "plot"
    /\ IF StrategySet \subseteq DOMAIN logs
       THEN /\ plot_data' = [s \in StrategySet |-> read(logs[s])]
            /\ pc' = "done"
            /\ UNCHANGED uncaught
       ELSE /\ Raise("FileNotFoundError", "StatisticPlot")
            /\ UNCHANGED plot_data
    /\ UNCHANGED <<tree, launches, events, pdfs, strat, idx, total_pages, errors, total_mining_time,
                   dirs, logs, stats_file, json_writes, final_stats_dict, is_ready,
                   clock, fault_budget>>

Next ==
    \/ cleanup
    \/ create_dirs
    \/ test_regex
    \/ test_pypdf2
    \/ test_pdfrw
    \/ test_pdfquery
    \/ test_tika
    \/ test_pdfminer
    \/ save_final_stats_ready
    \/ save_final_stats_write
    \/ run_poll
    \/ run_plot

Spec == Init /\ [][Next]_vars

\* discovery on every directory of DiscoveryTrees, followed by a run in which
\* the clock stands still and one error is raised
InitDiscovery == InitObject(DiscoveryTrees, 1, MaxClock)

SpecDiscovery == InitDiscovery /\ [][Next]_vars

\* runs on the directories of CountTrees, the clock standing still and one
\* error raised
InitCounts == InitObject(CountTrees, 1, MaxClock)

SpecCounts == InitCounts /\ [][Next]_vars

(***************************************************************************)
(* run.py started a second time                                            *)
(***************************************************************************)
\* launch() has returned to run()
LaunchReturned ==
    \/ pc \in {"poll", "plot", "done"}
    \/ pc = "aborted" /\ uncaught[1].origin = "StatisticPlot"

\* the process has ended after its launch() returned, and run.py is started
\* again on the same input directory, in the same working directory: a new
\* LibrariesTesting object, the output files as the first process left them
relaunch ==
    /\ launches = 1
    /\ LaunchReturned
    /\ pc \in {"done", "aborted"}
    /\ launches' = launches + 1
    /\ events' = <<>>
    /\ pdfs' \in prepare_pdfs(tree)
    /\ pc' = "cleanup"
    /\ strat' = 1
    /\ idx' = 0
    /\ total_pages' = <<>>
    /\ errors' = <<>>
    /\ total_mining_time' = <<>>
    /\ json_writes' = 0
    /\ final_stats_dict' = EmptyMap
    /\ is_ready' = FALSE
    /\ plot_data' = EmptyMap
    /\ uncaught' = <<>>
    /\ UNCHANGED <<tree, dirs, logs, stats_file, clock, fault_budget>>

NextTwice ==
    \/ Next
    \/ relaunch

SpecTwice == Init /\ [][NextTwice]_vars

(***************************************************************************)
(* Vocabulary of the properties                                            *)
(***************************************************************************)
\* the lines of the log of strategy s, none when the file does not exist
LinesOf(s) == IF s \in DOMAIN logs THEN logs[s] ELSE <<>>

\* the text '0.00000' a recognized failure is logged with
Sentinel == [units |-> 0, places |-> 5]

\* _test_<s> has merged its summary into the report
Summarized(s) == (s \o "_errors") \in DOMAIN final_stats_dict

\* the loop of _test_<s> of this run has ended
LoopEnded(s) ==
    \/ Summarized(s)
    \/ pc = "test" /\ Strategies[strat] = s /\ idx = Len(pdfs)

SentinelLines(s) == { i \in DOMAIN LinesOf(s) : LinesOf(s)[i].elapsed = Sentinel }

\* the elapsed-time fields of the log of s, read back and summed
LogSum(s) == sum([i \in DOMAIN LinesOf(s) |-> float(LinesOf(s)[i].elapsed)])

ReportKeys ==
    { s \o f : s \in StrategySet, f \in {"_total_pages", "_total_parsing_time", "_errors"} }

C2_TotalParsingTimeIsLogSum ==
    \A s \in StrategySet :
        Summarized(s) => final_stats_dict[s \o "_total_parsing_time"] = LogSum(s)

\* a summarized strategy whose log holds a zero-valued failure line and a line
\* of non-zero elapsed time
C2_Witness ==
    \E s \in StrategySet :
        /\ Summarized(s)
        /\ SentinelLines(s) # {}
        /\ \E i \in DOMAIN LinesOf(s) : float(LinesOf(s)[i].elapsed) > 0

(***************************************************************************)
(* C3                                                                      *)
(***************************************************************************)
\* C3: the error count stored under '<strategy>_errors' equals the number of
\* lines of the strategy's log whose elapsed time is the sentinel '0.00000',
\* while the loop runs the number of collected failures equals that number
\* too, no elapsed time recorded for a success is the sentinel, and the
\* distinct-error collection is never larger than the error count.
C3_ErrorCountIsSentinelCount ==
    /\ \A s \in StrategySet :
          Summarized(s) =>
              LET e == final_stats_dict[s \o "_errors"]
              IN  /\ e.count = Cardinality(SentinelLines(s))
                  /\ Cardinality(e.errors) <= e.count
    /\ pc = "test" => Len(errors) = Cardinality(SentinelLines(Strategies[strat]))
    /\ \A i \in DOMAIN total_mining_time : total_mining_time[i] # Sentinel

\* a summarized strategy with a failure and with a success whose elapsed time
\* is zero
C3_Witness ==
    \E s \in StrategySet :
        /\ Summarized(s)
        /\ final_stats_dict[s \o "_errors"].count = 1
        /\ \E i \in DOMAIN LinesOf(s) :
              /\ LinesOf(s)[i].elapsed # Sentinel
              /\ float(LinesOf(s)[i].elapsed) = 0

(***************************************************************************)
(* C4                                                                      *)
(***************************************************************************)
\* the errors of the running loop that an extraction call raised
ExtractionFailures == { i \in DOMAIN errors : errors[i].kind \in ExtractionErrors }

\* C4: a step in which the running strategy records an error raised by its
\* extraction call appends one line with the sentinel '0.00000' for that file,
\* adds nothing to the page counts or to the elapsed-time list, and goes on to
\* the next file without ending the run; so every finished file has added
\* either a page count or an extraction failure, never both.
C4_RecognizedFailureIsRecordedAsZero ==
    /\ [][ \A s \in StrategySet :
             ( /\ pc = "test"
               /\ Strategies[strat] = s
               /\ Len(errors') = Len(errors) + 1
               /\ errors'[Len(errors')].kind \in ExtractionErrors )
             => /\ LinesOf(s)' = Append(LinesOf(s),
                                        [filename |-> FileName(s, pdfs[idx + 1]),
                                         elapsed |-> Sentinel])
                /\ SubSeq(errors', 1, Len(errors)) = errors
                /\ total_pages' = total_pages
                /\ total_mining_time' = total_mining_time
                /\ idx' = idx + 1
                /\ pc' = "test"
                /\ strat' = strat
                /\ uncaught' = <<>> ]_vars
    /\ [](pc = "test" =>
            /\ Len(total_pages) + Cardinality(ExtractionFailures) = idx
            /\ Len(total_mining_time) = Len(total_pages))

\* the first file failed in its extraction and the second one was then
\* extracted
C4_Witness ==
    /\ pc = "test"
    /\ idx = 2
    /\ Len(errors) = 1
    /\ errors[1].id = 1
    /\ errors[1].kind \in ExtractionErrors
    /\ Len(total_pages) = 1

(***************************************************************************)
(* C5                                                                      *)
(***************************************************************************)
\* C5: only errors of the classes the except clause names are collected; a
\* step in which an extraction call raises any other error writes no line,
\* merges no summary, leaves is_ready false and final_stats.json unwritten,
\* and no step follows an uncaught error.
C5_UnrecognizedErrorEndsTheRun ==
    [][ /\ uncaught = <<>>
        /\ (Len(errors') = Len(errors) + 1) =>
              \E cls \in ExceptClasses(Strategies[strat]) :
                  IsSubclass(errors'[Len(errors')].kind, cls)
        /\ (uncaught' # <<>> /\ uncaught'[1].origin = "extraction") =>
              /\ \A cls \in ExceptClasses(Strategies[strat]) :
                    ~IsSubclass(uncaught'[1].kind, cls)
              /\ logs' = logs
              /\ final_stats_dict' = final_stats_dict
              /\ ~Summarized(Strategies[strat])'
              /\ ~is_ready'
              /\ stats_file' = <<>>
              /\ json_writes' = 0 ]_vars

\* the second strategy has finished one file and its extraction of the next
\* file raised an error that left launch()
C5_Witness ==
    /\ uncaught # <<>>
    /\ uncaught[1].origin = "extraction"
    /\ strat = 2
    /\ idx = 1

(***************************************************************************)
(* C6                                                                      *)
(***************************************************************************)
\* C6: whenever is_ready is true or launch() has written final_stats.json the
\* report holds the 18 keys of the six strategies; the report is written at
\* most once, and once launch() has returned it has been written exactly once
\* and holds the report.
C6_ReportCompleteBeforeReady ==
    /\ (is_ready \/ json_writes > 0) =>
          /\ DOMAIN final_stats_dict = ReportKeys
          /\ Cardinality(DOMAIN final_stats_dict) = 18
    /\ json_writes <= 1
    /\ pc \in {"poll", "plot", "done"} =>
          /\ json_writes = 1
          /\ stats_file = <<final_stats_dict>>

\* run() has finished after launch() wrote the report
C6_Witness == pc = "done" /\ json_writes = 1 /\ is_ready

(***************************************************************************)
(* C7                                                                      *)
(***************************************************************************)
\* C7: the discovered sequence has no duplicates, each of its files has a
\* size above zero and a name ending in '.pdf', every file of the directory
\* with both properties is in it, and every line a strategy writes carries
\* the filename of a discovered file (so a zero-byte empty.pdf gets none).
C7_DiscoveryFiltersFiles ==
    /\ \A i, j \in DOMAIN pdfs : pdfs[i] = pdfs[j] => i = j
    /\ \A i \in DOMAIN pdfs :
          /\ getsize(tree, pdfs[i]) > 0
          /\ EndsWith(Basename(pdfs[i]), <<".", "p", "d", "f">>)
    /\ \A e \in tree :
          (e.size > 0 /\ EndsWith(e.name, <<".", "p", "d", "f">>))
              => \E i \in DOMAIN pdfs : pdfs[i] = PathOf(e)
    /\ pc # "cleanup" =>
          \A s \in DOMAIN logs : \A k \in DOMAIN logs[s] :
              \E i \in DOMAIN pdfs :
                  /\ logs[s][k].filename = FileName(s, pdfs[i])
                  /\ getsize(tree, pdfs[i]) > 0

\* a finished run on a directory that holds a zero-byte empty.pdf beside a
\* file that was discovered
C7_Witness ==
    /\ pc = "done"
    /\ Len(pdfs) = 1
    /\ \E e \in tree : e.size = 0 /\ e.name = <<"e", "m", "p", "t", "y", ".", "p", "d", "f">>

(***************************************************************************)
(* C8                                                                      *)
(***************************************************************************)
\* C8: the discovered files are ordered by descending size, files of equal
\* size by ascending path.
C8_OrderedBySizeThenPath ==
    \A i, j \in DOMAIN pdfs :
        i < j =>
            \/ getsize(tree, pdfs[i]) > getsize(tree, pdfs[j])
            \/ /\ getsize(tree, pdfs[i]) = getsize(tree, pdfs[j])
               /\ StrLess(pdfs[i], pdfs[j])

(***************************************************************************)
(* C9                                                                      *)
(***************************************************************************)
\* C9: the distinct-error collection of a strategy's summary has as many
\* entries as there are distinct error strings among the strategy's failures.
C9_ErrorsDistinctByString ==
    \A s \in StrategySet :
        Summarized(s) =>
            LET e == final_stats_dict[s \o "_errors"].errors
            IN  Cardinality(e) = Cardinality({ x.msg : x \in e })

(***************************************************************************)
(* C10                                                                     *)
(***************************************************************************)
\* C10: when discovery finds no files and launch() has returned, every
\* strategy's log exists and is empty, every summary is total_pages = 0,
\* total_parsing_time = 0 and error count = 0, and run() reads the six logs
\* back without an error.
C10_EmptyDirectoryGivesEmptyLogs ==
    pdfs = <<>> =>
        /\ pc \in {"poll", "plot", "done"} =>
              \A s \in StrategySet :
                  /\ s \in DOMAIN logs
                  /\ logs[s] = <<>>
                  /\ final_stats_dict[s \o "_total_pages"] = 0
                  /\ final_stats_dict[s \o "_total_parsing_time"] = 0
                  /\ final_stats_dict[s \o "_errors"].count = 0
        /\ ~(uncaught # <<>> /\ uncaught[1].origin = "StatisticPlot")

C12_EveryLineHasFiveDecimals ==
    \A s \in StrategySet :
        \A i \in DOMAIN LinesOf(s) :
            /\ DOMAIN LinesOf(s)[i] = {"filename", "elapsed"}
            /\ LinesOf(s)[i].elapsed.places = 5

(***************************************************************************)
(* C13                                                                     *)
(***************************************************************************)
\* C13: in the regex strategy, for every file, the contents of the file have
\* been read before the timer is started: among the statements an iteration
\* of _test_regex has run, 'file_read' comes before 'timer_started', so no
\* file I/O falls between the two readings of the clock.
C13_RegexReadsBeforeTimerStarts ==
    (pc = "test" /\ Strategies[strat] = "regex") =>
        \A j \in DOMAIN events :
            events[j] = "timer_started" =>
                \E i \in 1..(j - 1) : events[i] = "file_read"

(***************************************************************************)
(* C14                                                                     *)
(***************************************************************************)
\* a page count that is a number with a fractional part
Fractional(v) == v.type = "float" /\ v.num % v.den # 0

\* C14: when the loop of a strategy has gathered a page count that is not an
\* integer (a number with a fractional part), the summary step fails: no step
\* taken from there leaves the strategy with its totals merged into the
\* report, the fractional count cut down to an integer inside total_pages.
C14_FractionalCountFailsTheSummary ==
    [][ \A s \in StrategySet :
          ( /\ pc = "test"
            /\ Strategies[strat] = s
            /\ \E i \in DOMAIN total_pages : Fractional(total_pages[i]) )
          => ~Summarized(s)' ]_vars

(***************************************************************************)
(* C15                                                                     *)
(***************************************************************************)
\* C15: in every reachable state, is_ready being true implies that this
\* launch() has written final_stats.json and the file holds the whole report:
\* the flag is not set before the report is persisted, and a run ended by a
\* failure of the write has is_ready false.
C15_ReadyImpliesReportWritten ==
    is_ready =>
        /\ json_writes = 1
        /\ stats_file = <<final_stats_dict>>
        /\ ~(pc = "aborted" /\ uncaught[1].origin = "save_final_stats")

====
